---------------------------- MODULE Spec2Model ----------------------------
(***************************************************************************)
(* A model of the bytevec serialization library (fero23/bytevec).          *)
(*                                                                         *)
(* Machine integers are modelled as numerals: fixed-length sequences of    *)
(* base-256 digits, most significant digit first, so that 64-bit values    *)
(* and their overflow are exact.  A byte buffer is a sequence of 0..255.   *)
(***************************************************************************)
EXTENDS Integers, Sequences, FiniteSets, TLC

VARIABLES host, build, invalid_char, size, ty, val, buf, op, szres, encres, decres,
          tampered, limit, calls, heap

vars == <<host, build, invalid_char, size, ty, val, buf, op, szres, encres, decres,
          tampered, limit, calls, heap>>

-----------------------------------------------------------------------------
(* Numerals                                                                *)

\* size_of::<usize>() on the modelled (64-bit) platform.
UsizeBytes == 8

Reverse(s) == [i \in 1..Len(s) |-> s[Len(s) + 1 - i]]

Zeros(k) == [i \in 1..k |-> 0]

RECURSIVE NatToNum(_, _)
\* The k-digit numeral of the natural number n (n mod 256^k).
NatToNum(n, k) == IF k = 0 THEN << >>
                  ELSE Append(NatToNum(n \div 256, k - 1), n % 256)

\* A numeral is small when it fits three digits; only then is it turned
\* back into a natural number (every real buffer length is small).
IsSmall(a) == \A i \in 1..Len(a) : i <= Len(a) - 3 => a[i] = 0

RECURSIVE NumToNat(_)
NumToNat(a) == IF Len(a) = 0 THEN 0
               ELSE 256 * NumToNat(SubSeq(a, 1, Len(a) - 1)) + a[Len(a)]

\* The value of a small numeral; of a large one, a number above every length.
SmallNat(a) == IF IsSmall(a)
               THEN NumToNat(SubSeq(a, IF Len(a) > 3 THEN Len(a) - 2 ELSE 1, Len(a)))
               ELSE 16777216

\* Widening and truncating casts between integer widths (`as`).
Cast(a, k) == IF Len(a) >= k THEN SubSeq(a, Len(a) - k + 1, Len(a))
              ELSE Zeros(k - Len(a)) \o a

RECURSIVE CarryInto(_, _, _)
\* The carry into digit i of a + b (numerals of equal length).
CarryInto(a, b, i) == IF i = Len(a) THEN 0
                      ELSE (a[i + 1] + b[i + 1] + CarryInto(a, b, i + 1)) \div 256

\* a + b modulo 256^Len(a), and whether the true sum did not fit.
WrapAdd(a, b) == [i \in 1..Len(a) |-> (a[i] + b[i] + CarryInto(a, b, i)) % 256]

AddOverflows(a, b) == Len(a) > 0 /\ (a[1] + b[1] + CarryInto(a, b, 1)) \div 256 > 0

RECURSIVE MulCarryInto(_, _, _)
MulCarryInto(a, m, i) == IF i = Len(a) THEN 0
                         ELSE (a[i + 1] * m + MulCarryInto(a, m, i + 1)) \div 256

\* a * m for a small natural m, modulo 256^Len(a), and whether it did not fit.
WrapMul(a, m) == [i \in 1..Len(a) |-> (a[i] * m + MulCarryInto(a, m, i)) % 256]

MulOverflows(a, m) == Len(a) > 0 /\ (a[1] * m + MulCarryInto(a, m, 1)) \div 256 > 0

\* a < b for numerals of equal length.
NumLess(a, b) == \E i \in 1..Len(a) :
                    /\ a[i] < b[i]
                    /\ \A j \in 1..(i - 1) : a[j] = b[j]

NumLeq(a, b) == a = b \/ NumLess(a, b)

-----------------------------------------------------------------------------
(* Options, results and errors                                             *)

None == [some |-> FALSE, n |-> << >>]
Some(n) == [some |-> TRUE, n |-> n]

Ok(v) == [tag |-> "Ok", v |-> v]
Err(e) == [tag |-> "Err", v |-> e]
\* A panic of the thread: an arithmetic overflow in a checked build, an
\* out-of-range slice, an unwrap of None.
Panic == [tag |-> "Panic", v |-> << >>]
NoResult == [tag |-> "NoResult", v |-> << >>]
\* The process is killed by a signal (an illegal instruction).
Killed == [tag |-> "Killed", v |-> << >>]

OverflowError == [kind |-> "OverflowError"]
MoreThan(n) == [cmp |-> "MoreThan", n |-> n]
LessOrEqualThan(n) == [cmp |-> "LessOrEqualThan", n |-> n]
EqualTo(n) == [cmp |-> "EqualTo", n |-> n]
BadSizeDecodeError(expected, actual) ==
    [kind |-> "BadSizeDecodeError", expected |-> expected, actual |-> actual]
StringDecodeUtf8Error(validUpTo) ==
    [kind |-> "StringDecodeUtf8Error", valid_up_to |-> validUpTo]

-----------------------------------------------------------------------------
(* BVSize: the integer type of the size indicators, w bytes wide           *)

Widths == {1, 2, 4, 8}

from_usize(w, x) == Cast(x, w)
as_usize(n) == Cast(n, UsizeBytes)
max_value(w) == [i \in 1..w |-> 255]
checked_add_wrapping(a, b) == Some(WrapAdd(a, b))
checked_add(a, b) == IF AddOverflows(a, b) THEN None ELSE Some(WrapAdd(a, b))
get_size_of(w) == from_usize(w, NatToNum(w, UsizeBytes))

\* usize arithmetic written with + and *: an overflow panics in a build
\* with overflow checks and wraps in one without.
UAdd(a, b) == IF AddOverflows(a, b) /\ build = "debug" THEN Panic
              ELSE Ok(WrapAdd(a, b))
UMul(a, m) == IF MulOverflows(a, m) /\ build = "debug" THEN Panic
              ELSE Ok(WrapMul(a, m))

\* bytes.len()
BLen(bytes) == NatToNum(Len(bytes), UsizeBytes)

\* &bytes[from..to] for usize numerals from and to.
SliceOk(bytes, from, to) == NumLeq(from, to) /\ NumLeq(to, BLen(bytes))
Slice(bytes, from, to) == SubSeq(bytes, SmallNat(from) + 1, SmallNat(to))

-----------------------------------------------------------------------------
(* Primitive codecs                                                        *)

IntTypes == {"u8", "u16", "u32", "u64", "i8", "i16", "i32", "i64"}
UnsizedTypes == {"f32", "f64", "char"}
PrimTypes == IntTypes \cup UnsizedTypes \cup {"usize"}

\* The $size of impl_integrals!, size_of::<$t>() of the others.
PrimSize(t) == CASE t \in {"u8", "i8"} -> 1
                 [] t \in {"u16", "i16"} -> 2
                 [] t \in {"u32", "i32", "f32", "char"} -> 4
                 [] t \in {"u64", "i64", "f64"} -> 8
                 [] t = "usize" -> UsizeBytes

\* The integer's bytes in memory, lowest address first, and back.
transmute_to_bytes(n) == IF host = "le" THEN Reverse(n) ELSE n
transmute_from_bytes(b) == IF host = "le" THEN Reverse(b) ELSE b
swap_bytes(n) == Reverse(n)
to_le(n) == IF host = "le" THEN n ELSE swap_bytes(n)
from_le(n) == IF host = "le" THEN n ELSE swap_bytes(n)

\* impl_integrals! encode: transmute(self.to_le()).to_vec()
IntEncode(n) == Ok(transmute_to_bytes(to_le(n)))

\* A decoder that reads the first k bytes of a buffer of k bytes or more.
IntDecodeAtLeast(k, bytes) ==
    IF Len(bytes) >= k
    THEN Ok(from_le(transmute_from_bytes(SubSeq(bytes, 1, k))))
    ELSE Err(BadSizeDecodeError(EqualTo(NatToNum(k, UsizeBytes)), BLen(bytes)))

\* A decoder that reports a wrong length as a limit exceeded.
IntDecodeAsLimit(k, bytes) ==
    IF Len(bytes) = k
    THEN Ok(from_le(transmute_from_bytes(bytes)))
    ELSE Err(BadSizeDecodeError(LessOrEqualThan(NatToNum(k, UsizeBytes)), BLen(bytes)))

\* impl_integrals! decode for an integer k bytes wide.
IntDecode(k, bytes) ==
    IF Len(bytes) = k
    THEN Ok(from_le(transmute_from_bytes(bytes)))
    ELSE Err(BadSizeDecodeError(EqualTo(NatToNum(k, UsizeBytes)), BLen(bytes)))

PrimGetSize(w, t) == Some(from_usize(w, NatToNum(PrimSize(t), UsizeBytes)))

\* Integers encode themselves; f32, f64 and char are transmuted to the
\* unsigned integer of their width, usize is cast to the integer of the
\* platform's width; the bit pattern n is the same in each case.
PrimEncode(t, n) == IntEncode(n)

PrimValue(t, n) == [k |-> "prim", t |-> t, n |-> n]

\* The 32-bit pattern n is a Unicode scalar value: at most 0x10FFFF and
\* outside the surrogates 0xD800..0xDFFF.
IsScalarValue(n) ==
    /\ n[1] = 0
    /\ n[2] <= 16
    /\ ~(n[2] = 0 /\ n[3] \in 216..223)

\* Integers decode themselves; f32, f64 and char decode the unsigned
\* integer and transmute it, char without a look at the value.
PrimDecode(t, bytes) ==
    LET r == IntDecode(PrimSize(t), bytes)
    IN  IF r.tag # "Ok" THEN r
        ELSE IF t = "char" /\ ~IsScalarValue(r.v) /\ invalid_char = "killed" THEN Killed
        ELSE Ok(PrimValue(t, r.v))

-----------------------------------------------------------------------------
(* Text: std::str::from_utf8 over the whole slice                          *)

IsCont(b) == b \in 128..191

\* The length of the sequence a lead byte announces; 0 for a byte that
\* cannot start one.
Utf8Width(b) == IF b < 128 THEN 1
                ELSE IF b \in 194..223 THEN 2
                ELSE IF b \in 224..239 THEN 3
                ELSE IF b \in 240..244 THEN 4
                ELSE 0

\* The range of the second byte after lead byte b.
SecondOk(b, c) == CASE b = 224 -> c \in 160..191
                    [] b = 237 -> c \in 128..159
                    [] b = 240 -> c \in 144..191
                    [] b = 244 -> c \in 128..143
                    [] OTHER -> IsCont(c)

\* A complete well-formed sequence starts at position i of s.
WellFormedAt(s, i) ==
    LET n == Utf8Width(s[i])
    IN  /\ n > 0
        /\ i + n - 1 <= Len(s)
        /\ n >= 2 => SecondOk(s[i], s[i + 1])
        /\ \A j \in (i + 2)..(i + n - 1) : IsCont(s[j])

\* Position i lies inside a well-formed sequence that starts before it.
Covered(s, i) ==
    \E j \in 1..3 : /\ i - j >= 1
                    /\ Utf8Width(s[i - j]) > j
                    /\ WellFormedAt(s, i - j)

\* The positions where no sequence can start or continue (an ASCII byte is
\* a sequence by itself wherever it stands).
BadPositions(s) ==
    {i \in 1..Len(s) : s[i] >= 128 /\ ~WellFormedAt(s, i) /\ ~Covered(s, i)}

Min(S) == CHOOSE x \in S : \A y \in S : x <= y

\* Ok(s) for valid UTF-8, else the error with the length of the valid prefix.
from_utf8(s) == IF BadPositions(s) = {} THEN Ok(s)
                ELSE Err(StringDecodeUtf8Error(Min(BadPositions(s)) - 1))

StrValue(s) == [k |-> "str", s |-> s]

StrGetSize(w, s) ==
    IF NumLeq(BLen(s), as_usize(max_value(w)))
    THEN Some(from_usize(w, BLen(s)))
    ELSE None

StrEncodeUnchecked(w, s) == Ok(s)

StrEncode(w, s) == IF StrGetSize(w, s).some THEN Ok(s) ELSE Err(OverflowError)

\* A decoder that takes any bytes for text.
StrDecodeUnchecked(bytes) == Ok(StrValue(bytes))

StrDecode(bytes) ==
    LET r == from_utf8(bytes)
    IN  IF r.tag = "Ok" THEN Ok(StrValue(r.v)) ELSE r

-----------------------------------------------------------------------------
(* Values                                                                  *)
(*                                                                         *)
(* [k |-> "prim", t, n]     an integer, float or char with bit pattern n   *)
(* [k |-> "str", s]         a str or String with UTF-8 bytes s             *)
(* [k |-> "unit"]           ()                                             *)
(* [k |-> "vec", e]         a Vec; "slice", "hashset", "hashmap" alike,    *)
(*                          e the elements in the order iter() visits      *)
(*                          them; a map's elements are (key, value) tuples *)
(* [k |-> "tuple", e]       a tuple of arity Len(e)                        *)
(* [k |-> "struct", name, f, rest]  a struct: f the values of the fields   *)
(*                          listed in bytevec_impls!, rest the others      *)

UnitValue == [k |-> "unit"]
VecValue(e) == [k |-> "vec", e |-> e]
SliceValue(e) == [k |-> "slice", e |-> e]
HashSetValue(e) == [k |-> "hashset", e |-> e]
HashMapValue(e) == [k |-> "hashmap", e |-> e]
TupleValue(e) == [k |-> "tuple", e |-> e]
StructValue(name, f, rest) == [k |-> "struct", name |-> name, f |-> f, rest |-> rest]

CollectionKinds == {"vec", "slice", "hashset", "hashmap"}

-----------------------------------------------------------------------------
(* ByteEncodable                                                           *)

RECURSIVE get_size(_, _)
RECURSIVE SizeFold(_, _, _, _, _)
RECURSIVE encode(_, _)
RECURSIVE EncodeSizes(_, _, _, _, _)
RECURSIVE EncodeBodies(_, _, _, _, _)

\* One step of the size fold: acc + elem_size + size_of::<Size>(), each
\* addition checked.
SizeStepUnchecked(w, acc, elemSize) ==
    IF ~acc.some \/ ~elemSize.some THEN None
    ELSE Some(WrapAdd(WrapAdd(acc.n, elemSize.n), get_size_of(w)))

SizeStep(w, acc, elemSize) ==
    IF ~acc.some \/ ~elemSize.some THEN None
    ELSE LET s == checked_add(acc.n, elemSize.n)
         IN  IF s.some THEN checked_add(s.n, get_size_of(w)) ELSE None

\* The fold over elements lo..hi in order, from the accumulator acc (the
\* range is halved so that long collections do not nest deeply).
SizeFold(w, es, lo, hi, acc) ==
    IF lo > hi \/ ~acc.some THEN acc
    ELSE IF lo = hi THEN SizeStep(w, acc, get_size(w, es[lo]))
    ELSE SizeFold(w, es, (lo + hi) \div 2 + 1, hi,
                  SizeFold(w, es, lo, (lo + hi) \div 2, acc))

SizeOfAll(w, es) == SizeFold(w, es, 1, Len(es), Some(from_usize(w, Zeros(UsizeBytes))))

\* collection_encode_impl! get_size
CollectionGetSize(w, es) ==
    LET total == SizeOfAll(w, es)
    IN  IF total.some THEN checked_add(total.n, get_size_of(w)) ELSE None

\* tuple_impls! get_size: (A,) hands the call on to its element,
\* (&(&self.0)).get_size(); the longer tuples add up their size fields
\* and bodies.
TupleGetSize(w, es) ==
    IF Len(es) = 1 THEN get_size(w, es[1])
    ELSE SizeOfAll(w, es)

\* bytevec_impls! get_size, over the listed fields.
StructGetSize(w, fs) == SizeOfAll(w, fs)

UnitGetSize(w) == Some(from_usize(w, Zeros(UsizeBytes)))

get_size(w, v) ==
    CASE v.k = "prim" -> PrimGetSize(w, v.t)
      [] v.k = "str" -> StrGetSize(w, v.s)
      [] v.k = "unit" -> UnitGetSize(w)
      [] v.k \in CollectionKinds -> CollectionGetSize(w, v.e)
      [] v.k = "tuple" -> TupleGetSize(w, v.e)
      [] v.k = "struct" -> StructGetSize(w, v.f)

\* The first pass: the size field of each element lo..hi, appended to
\* the bytes of r; get_size(..).unwrap() panics on None.
EncodeSizes(w, es, lo, hi, r) ==
    IF lo > hi \/ r.tag # "Ok" THEN r
    ELSE IF lo = hi
    THEN LET s == get_size(w, es[lo])
         IN  IF ~s.some THEN Panic ELSE Ok(r.v \o IntEncode(s.n).v)
    ELSE EncodeSizes(w, es, (lo + hi) \div 2 + 1, hi,
                     EncodeSizes(w, es, lo, (lo + hi) \div 2, r))

\* The second pass: the body of each element lo..hi, appended to the
\* bytes of r; try! returns the first error.
EncodeBodies(w, es, lo, hi, r) ==
    IF lo > hi \/ r.tag # "Ok" THEN r
    ELSE IF lo = hi
    THEN LET b == encode(w, es[lo])
         IN  IF b.tag # "Ok" THEN b ELSE Ok(r.v \o b.v)
    ELSE EncodeBodies(w, es, (lo + hi) \div 2 + 1, hi,
                      EncodeBodies(w, es, lo, (lo + hi) \div 2, r))

\* Each element's size field followed at once by its body.
RECURSIVE EncodeEach(_, _, _, _, _)
EncodeEach(w, es, lo, hi, r) ==
    IF lo > hi \/ r.tag # "Ok" THEN r
    ELSE IF lo = hi THEN EncodeBodies(w, es, lo, lo, EncodeSizes(w, es, lo, lo, r))
    ELSE EncodeEach(w, es, (lo + hi) \div 2 + 1, hi,
                    EncodeEach(w, es, lo, (lo + hi) \div 2, r))

EncodeInterleaved(w, es, bytes) == EncodeEach(w, es, 1, Len(es), Ok(bytes))

\* All size fields, then all bodies, after the bytes already written.
EncodeBlocks(w, es, bytes) ==
    EncodeBodies(w, es, 1, Len(es), EncodeSizes(w, es, 1, Len(es), Ok(bytes)))

\* collection_encode_impl! encode
CollectionEncode(w, es) ==
    IF CollectionGetSize(w, es).some
    THEN EncodeBlocks(w, es, IntEncode(from_usize(w, NatToNum(Len(es), UsizeBytes))).v)
    ELSE Err(OverflowError)

\* A tuple written as a collection is: its arity first.
TupleEncodeCounted(w, es) ==
    IF TupleGetSize(w, es).some
    THEN EncodeBlocks(w, es, IntEncode(from_usize(w, NatToNum(Len(es), UsizeBytes))).v)
    ELSE Err(OverflowError)

\* tuple_impls! encode: (A,) hands the call on to its element,
\* (&(&self.0)).encode(), and writes no size field.
TupleEncode(w, es) ==
    IF Len(es) = 1 THEN encode(w, es[1])
    ELSE IF TupleGetSize(w, es).some THEN EncodeBlocks(w, es, << >>)
    ELSE Err(OverflowError)

\* bytevec_impls! encode
StructEncode(w, fs) ==
    IF StructGetSize(w, fs).some THEN EncodeBlocks(w, fs, << >>)
    ELSE Err(OverflowError)

\* impl ByteEncodable for (): the encoding of the size 0.
UnitEncode(w) == IntEncode(from_usize(w, Zeros(UsizeBytes)))

encode(w, v) ==
    CASE v.k = "prim" -> PrimEncode(v.t, v.n)
      [] v.k = "str" -> StrEncode(w, v.s)
      [] v.k = "unit" -> UnitEncode(w)
      [] v.k \in CollectionKinds -> CollectionEncode(w, v.e)
      [] v.k = "tuple" -> TupleEncode(w, v.e)
      [] v.k = "struct" -> StructEncode(w, v.f)

-----------------------------------------------------------------------------
(* Types to decode into                                                    *)
(*                                                                         *)
(* A struct type names the types of its listed fields (of), the types of   *)
(* its other fields (restTy) and the values its own Default::default()     *)
(* gives those other fields (dflt).                                        *)

TPrim(t) == [k |-> "prim", t |-> t]
TStr == [k |-> "str"]
TUnit == [k |-> "unit"]
TVec(T) == [k |-> "vec", of |-> T]
THashSet(T) == [k |-> "hashset", of |-> T]
TTuple(ts) == [k |-> "tuple", of |-> ts]
THashMap(K, V) == [k |-> "hashmap", of |-> TTuple(<<K, V>>)]
TStruct(name, ts, restTy, dflt) ==
    [k |-> "struct", name |-> name, of |-> ts, restTy |-> restTy, dflt |-> dflt]

-----------------------------------------------------------------------------
(* ByteDecodable                                                           *)

RECURSIVE SumFold(_, _, _, _)
\* The fold |acc, size| acc + size.as_usize() over sizes[lo..hi].
SumFold(sizes, lo, hi, r) ==
    IF lo > hi \/ r.tag # "Ok" THEN r
    ELSE IF lo = hi THEN UAdd(r.v, as_usize(sizes[lo]))
    ELSE SumFold(sizes, (lo + hi) \div 2 + 1, hi,
                 SumFold(sizes, lo, (lo + hi) \div 2, r))

\* sizes.iter().fold(0, ..): the body size the size fields declare.
SumSizes(sizes) == SumFold(sizes, 1, Len(sizes), Ok(Zeros(UsizeBytes)))

\* The n size fields of w bytes each that start at offset `from` (all of
\* them inside the buffer).
ReadSizes(w, bytes, from, n) ==
    [i \in 1..n |-> IntDecode(w, SubSeq(bytes, from + (i - 1) * w + 1, from + i * w)).v]

\* The error built from an expected size that is itself a usize sum.
BadSizeOf(cmp, expected, bytes) ==
    IF expected.tag # "Ok" THEN expected
    ELSE Err(BadSizeDecodeError([cmp |-> cmp, n |-> expected.v], BLen(bytes)))

\* validate_collection!: Ok([len, index, sizes]) when the body may be
\* decoded, else what the macro returns.  When len * size_of::<Size>()
\* wrapped, the loop over 0..len slices past the end of the buffer.
validate_collection(w, bytes) ==
    LET W == as_usize(get_size_of(w))
    IN  IF NumLeq(W, BLen(bytes))
        THEN LET len == as_usize(IntDecode(w, SubSeq(bytes, 1, w)).v)
                 sizes_len == UMul(len, w)
             IN  IF sizes_len.tag # "Ok" THEN sizes_len
                 ELSE IF NumLeq(sizes_len.v, NatToNum(Len(bytes) - w, UsizeBytes))
                 THEN IF MulOverflows(len, w) THEN Panic
                      ELSE LET sizes == ReadSizes(w, bytes, w, SmallNat(len))
                               index == NatToNum(w + SmallNat(len) * w, UsizeBytes)
                               body_size == SumSizes(sizes)
                           IN  IF body_size.tag # "Ok" THEN body_size
                               ELSE IF body_size.v =
                                       NatToNum(Len(bytes) - w - SmallNat(sizes_len.v),
                                                UsizeBytes)
                               THEN Ok([len |-> len, index |-> index, sizes |-> sizes])
                               ELSE LET hdr == UAdd(W, sizes_len.v)
                                    IN  IF hdr.tag # "Ok" THEN hdr
                                        ELSE BadSizeOf("EqualTo",
                                                       UAdd(hdr.v, body_size.v), bytes)
                 ELSE BadSizeOf("MoreThan", UAdd(W, sizes_len.v), bytes)
        ELSE Err(BadSizeDecodeError(MoreThan(W), BLen(bytes)))

\* A set that keeps only the element inserted last.
SetInsertReplace(acc, x) == <<x>>

\* set.insert(x)
SetInsert(acc, x) == IF \E i \in 1..Len(acc) : acc[i] = x THEN acc ELSE Append(acc, x)

\* map.insert(key, value): the value of an equal key is replaced.
MapInsertKeepFirst(acc, kv) ==
    IF \E i \in 1..Len(acc) : acc[i].e[1] = kv.e[1] THEN acc ELSE Append(acc, kv)

MapInsert(acc, kv) ==
    IF \E i \in 1..Len(acc) : acc[i].e[1] = kv.e[1]
    THEN [i \in 1..Len(acc) |-> IF acc[i].e[1] = kv.e[1] THEN kv ELSE acc[i]]
    ELSE Append(acc, kv)

\* Insertion at the front of the collection.
InsertFront(kind, acc, x) == <<x>> \o acc

\* vec.push(x) and its counterparts, by the kind of the collection.
Insert(kind, acc, x) == CASE kind = "vec" -> Append(acc, x)
                          [] kind = "hashset" -> SetInsert(acc, x)
                          [] kind = "hashmap" -> MapInsert(acc, x)

RECURSIVE decode(_, _, _)
RECURSIVE DecodeElems(_, _, _, _, _, _, _, _)
RECURSIVE DecodeFields(_, _, _, _, _, _, _)
RECURSIVE ReadFieldSizes(_, _, _, _, _, _)

\* One turn of the loop of the collection decoders: the element is decoded
\* from bytes[index..index + size] and inserted, and index moves on.
DecodeElem(w, kind, T, bytes, sz, st) ==
    LET end == UAdd(st.index, as_usize(sz))
    IN  IF end.tag # "Ok" THEN end
        ELSE IF ~SliceOk(bytes, st.index, end.v) THEN Panic
        ELSE LET x == decode(w, T, Slice(bytes, st.index, end.v))
             IN  IF x.tag # "Ok" THEN x
                 ELSE Ok([index |-> end.v, acc |-> Insert(kind, st.acc, x.v)])

\* The loop over sizes[lo..hi], from the state of r; try! returns the
\* first error.
DecodeElems(w, kind, T, bytes, sizes, lo, hi, r) ==
    IF lo > hi \/ r.tag # "Ok" THEN r
    ELSE IF lo = hi THEN DecodeElem(w, kind, T, bytes, sizes[lo], r.v)
    ELSE DecodeElems(w, kind, T, bytes, sizes, (lo + hi) \div 2 + 1, hi,
                     DecodeElems(w, kind, T, bytes, sizes, lo, (lo + hi) \div 2, r))

\* impl ByteDecodable for Vec<T>, HashSet<T>, HashMap<K, V>
CollectionDecode(w, kind, T, bytes) ==
    LET c == validate_collection(w, bytes)
    IN  IF c.tag # "Ok" THEN c
        ELSE LET r == DecodeElems(w, kind, T, bytes, c.v.sizes, 1, Len(c.v.sizes),
                                  Ok([index |-> c.v.index, acc |-> << >>]))
             IN  IF r.tag # "Ok" THEN r ELSE Ok([k |-> kind, e |-> r.v.acc])

\* impl ByteDecodable for (A,)
Tuple1Decode(w, T, bytes) ==
    LET W == as_usize(get_size_of(w))
    IN  IF NumLeq(W, BLen(bytes))
        THEN LET sz == IntDecode(w, SubSeq(bytes, 1, w)).v
             IN  IF as_usize(sz) = NatToNum(Len(bytes) - w, UsizeBytes)
                 THEN LET x == decode(w, T, SubSeq(bytes, w + 1, Len(bytes)))
                      IN  IF x.tag # "Ok" THEN x ELSE Ok(TupleValue(<<x.v>>))
                 ELSE BadSizeOf("EqualTo", UAdd(W, as_usize(sz)), bytes)
        ELSE Err(BadSizeDecodeError(MoreThan(W), BLen(bytes)))

\* The size field of each position i..n, read in order from offset index;
\* a missing field is the error MoreThan(size_of::<Size>() + index).
ReadFieldSizes(w, bytes, n, i, index, sizes) ==
    IF i > n THEN Ok([index |-> index, sizes |-> sizes])
    ELSE IF Len(bytes) - index >= w
    THEN ReadFieldSizes(w, bytes, n, i + 1, index + w,
                        Append(sizes, IntDecode(w, SubSeq(bytes, index + 1, index + w)).v))
    ELSE Err(BadSizeDecodeError(MoreThan(NatToNum(w + index, UsizeBytes)), BLen(bytes)))

\* The bodies of positions i..Len(ts), each decoded with its own type from
\* bytes[index..index + size].
DecodeFields(w, ts, bytes, sizes, i, index, acc) ==
    IF i > Len(ts) THEN Ok(acc)
    ELSE LET end == UAdd(index, as_usize(sizes[i]))
         IN  IF end.tag # "Ok" THEN end
             ELSE IF ~SliceOk(bytes, index, end.v) THEN Panic
             ELSE LET x == decode(w, ts[i], Slice(bytes, index, end.v))
                  IN  IF x.tag # "Ok" THEN x
                      ELSE DecodeFields(w, ts, bytes, sizes, i + 1, end.v,
                                        Append(acc, x.v))

\* The common part of tuple_impls! decode (two positions or more) and
\* bytevec_impls! decode: Ok(the decoded positions) or what they return.
BlocksDecode(w, ts, bytes) ==
    LET hdr == ReadFieldSizes(w, bytes, Len(ts), 1, 0, << >>)
    IN  IF hdr.tag # "Ok" THEN hdr
        ELSE LET body_size == SumSizes(hdr.v.sizes)
             IN  IF body_size.tag # "Ok" THEN body_size
                 ELSE IF body_size.v = NatToNum(Len(bytes) - hdr.v.index, UsizeBytes)
                 THEN DecodeFields(w, ts, bytes, hdr.v.sizes, 1,
                                   NatToNum(hdr.v.index, UsizeBytes), << >>)
                 ELSE BadSizeOf("EqualTo",
                                UAdd(NatToNum(w * Len(ts), UsizeBytes), body_size.v),
                                bytes)

\* tuple_impls! decode
TupleDecode(w, ts, bytes) ==
    IF Len(ts) = 1 THEN Tuple1Decode(w, ts[1], bytes)
    ELSE LET r == BlocksDecode(w, ts, bytes)
         IN  IF r.tag # "Ok" THEN r ELSE Ok(TupleValue(r.v))

\* The Default value of a type that derives it: zero, the empty string,
\* the empty collection, and so on through tuples and structs.
RECURSIVE DefaultOf(_)
DefaultOf(T) ==
    CASE T.k = "prim" -> PrimValue(T.t, Zeros(PrimSize(T.t)))
      [] T.k = "str" -> StrValue(<< >>)
      [] T.k = "unit" -> UnitValue
      [] T.k \in {"vec", "hashset", "hashmap"} -> [k |-> T.k, e |-> << >>]
      [] T.k = "tuple" -> TupleValue([i \in 1..Len(T.of) |-> DefaultOf(T.of[i])])
      [] T.k = "struct" ->
           StructValue(T.name, [i \in 1..Len(T.of) |-> DefaultOf(T.of[i])],
                       [i \in 1..Len(T.restTy) |-> DefaultOf(T.restTy[i])])

\* A decoder that gives each unlisted field the Default of the field's type.
StructDecodeFieldDefaults(w, T, bytes) ==
    LET r == BlocksDecode(w, T.of, bytes)
    IN  IF r.tag # "Ok" THEN r
        ELSE Ok(StructValue(T.name, r.v, [i \in 1..Len(T.restTy) |-> DefaultOf(T.restTy[i])]))

\* bytevec_impls! decode: the listed fields from the buffer, the others
\* from ..Default::default().
StructDecode(w, T, bytes) ==
    LET r == BlocksDecode(w, T.of, bytes)
    IN  IF r.tag # "Ok" THEN r ELSE Ok(StructValue(T.name, r.v, T.dflt))

decode(w, T, bytes) ==
    CASE T.k = "prim" -> PrimDecode(T.t, bytes)
      [] T.k = "str" -> StrDecode(bytes)
      [] T.k = "unit" -> Ok(UnitValue)
      [] T.k \in {"vec", "hashset", "hashmap"} -> CollectionDecode(w, T.k, T.of, bytes)
      [] T.k = "tuple" -> TupleDecode(w, T.of, bytes)
      [] T.k = "struct" -> StructDecode(w, T, bytes)

\* A guard that also turns away a buffer exactly as long as the limit.
decode_max_strict(w, T, bytes, lim) ==
    IF NumLess(BLen(bytes), as_usize(lim)) THEN decode(w, T, bytes)
    ELSE Err(BadSizeDecodeError(LessOrEqualThan(as_usize(lim)), BLen(bytes)))

\* ByteDecodable::decode_max with limit lim, a Size.
decode_max(w, T, bytes, lim) ==
    IF NumLeq(BLen(bytes), as_usize(lim)) THEN decode(w, T, bytes)
    ELSE Err(BadSizeDecodeError(LessOrEqualThan(as_usize(lim)), BLen(bytes)))

-----------------------------------------------------------------------------
(* Inputs: the values handed to get_size and encode, each with the type    *)
(* its bytes are decoded into                                              *)

\* The longest collection among the enumerated inputs.
MaxElems == 2

Rep(x, n) == [i \in 1..n |-> x]
SeqsUpTo(S, n) == UNION {[1..m -> S] : m \in 0..n}
DistinctSeqsUpTo(S, n) ==
    {q \in SeqsUpTo(S, n) : \A i, j \in 1..Len(q) : q[i] = q[j] => i = j}

U(t, n) == PrimValue(t, NatToNum(n, PrimSize(t)))
In(T, v) == [ty |-> T, v |-> v]

\* "", "Is", "Rust", and a two-byte character.
Txt == {<< >>, <<73, 115>>, <<82, 117, 115, 116>>, <<195, 169>>}

\* Two values of each primitive type; of char, '1' and char::MAX.
PrimInputs == {In(TPrim(t), U(t, n)) : t \in PrimTypes \ {"char"}, n \in {49, 1065353216}}
              \cup {In(TPrim("char"), U("char", n)) : n \in {49, 1114111}}

StrInputs == {In(TStr, StrValue(s)) : s \in Txt}

\* Sample elements of the sequences, by element type.
Samples(t) == CASE t = "str" -> {StrValue(<< >>), StrValue(<<73, 115>>), StrValue(<<195, 169>>)}
                [] t = "char" -> {U("char", 49), U("char", 233)}
                [] t = "u8" -> {U("u8", 7), U("u8", 255)}
                [] OTHER -> {U(t, 1), U(t, 16909060)}

ElemType(t) == IF t = "str" THEN TStr ELSE TPrim(t)

\* Every sequence of up to MaxElems sample elements of type t, as a Vec or
\* as a slice; both decode into a Vec.
SeqInputs(kind, t) == {In(TVec(ElemType(t)), [k |-> kind, e |-> q]) :
                          q \in SeqsUpTo(Samples(t), MaxElems)}

VecInputs == UNION {SeqInputs("vec", t) : t \in {"u8", "u32", "i64", "char", "str"}}
                \cup UNION {SeqInputs("slice", t) : t \in {"char", "str"}}

\* HashSet<u8> and HashSet<(String, u32)>: every set of up to MaxElems
\* sample elements, in every order iter() may visit it.
PairSamples == {TupleValue(<<StrValue(<<79, 110, 101, 33>>), U("u32", 1)>>),
                TupleValue(<<StrValue(<<84, 119, 111, 33>>), U("u32", 2)>>),
                TupleValue(<<StrValue(<< >>), U("u32", 1)>>)}

SetInputs ==
    {In(THashSet(TPrim("u8")), HashSetValue(q)) :
        q \in DistinctSeqsUpTo(Samples("u8"), MaxElems)}
    \cup {In(THashSet(TTuple(<<TStr, TPrim("u32")>>)), HashSetValue(q)) :
             q \in DistinctSeqsUpTo(PairSamples, MaxElems)}

\* HashMap<usize, String> and HashMap<String, String>: the entries are
\* (key, value) tuples with distinct keys, in every order.
DistinctKeys(q) == \A i, j \in 1..Len(q) : q[i].e[1] = q[j].e[1] => i = j

UsizeEntries == {TupleValue(<<U("usize", key), StrValue(s)>>) :
                    key \in {101, 102}, s \in {<<67, 83>>, << >>}}
StrEntries == {TupleValue(<<StrValue(key), StrValue(s)>>) :
                  key \in {<<78, 89>>, << >>}, s \in {<<74, 111>>, <<195, 169>>}}

MapInputs ==
    {In(THashMap(TPrim("usize"), TStr), HashMapValue(q)) :
        q \in {x \in SeqsUpTo(UsizeEntries, MaxElems) : DistinctKeys(x)}}
    \cup {In(THashMap(TStr, TStr), HashMapValue(q)) :
             q \in {x \in SeqsUpTo(StrEntries, MaxElems) : DistinctKeys(x)}}

\* Tuples of arity 1, 2, 3 and 12, and a tuple inside a tuple.
TupleInputs ==
    {In(TTuple(<<TPrim("u8")>>), TupleValue(<<U("u8", 7)>>)),
     In(TTuple(<<TStr>>), TupleValue(<<StrValue(<<82, 117, 115, 116>>)>>)),
     In(TTuple(<<TStr, TPrim("u32")>>), TupleValue(<<StrValue(<<79, 110, 101>>), U("u32", 1)>>)),
     In(TTuple(<<TPrim("u8"), TStr, TPrim("char")>>),
        TupleValue(<<U("u8", 255), StrValue(<<195, 169>>), U("char", 233)>>)),
     In(TTuple(<<TTuple(<<TPrim("u16")>>), TStr>>),
        TupleValue(<<TupleValue(<<U("u16", 258)>>), StrValue(<<73, 115>>)>>)),
     In(TTuple([i \in 1..12 |-> IF i % 2 = 1 THEN TPrim("u8") ELSE TStr]),
        TupleValue([i \in 1..12 |-> IF i % 2 = 1 THEN U("u8", i)
                                    ELSE StrValue(Rep(96 + i, i \div 4))]))}

\* The structs of the tests and of the documentation.  Profile and
\* Employee list every field.  Vertex3d lists x and y and leaves z to
\* Default::default(): derived (z = 0) in Vertex3d, written by hand
\* (z = 7) in Vertex3dOwn.
TProfile == TStruct("Profile", <<TPrim("u32"), TStr, TStr>>, << >>, << >>)
TEmployee == TStruct("Employee", <<TPrim("u32"), TProfile, TStr>>, << >>, << >>)
TMeetingsLog == TStruct("MeetingsLog", <<TPrim("u32"), TStr, THashMap(TStr, TStr)>>,
                        << >>, << >>)
TVertex3d == TStruct("Vertex3d", <<TPrim("u32"), TPrim("u32")>>, <<TPrim("u32")>>,
                     <<U("u32", 0)>>)
TVertex3dOwn == TStruct("Vertex3dOwn", <<TPrim("u32"), TPrim("u32")>>, <<TPrim("u32")>>,
                        <<U("u32", 7)>>)
TUser == TStruct("User", <<TPrim("u32"), TStr>>, << >>, << >>)

Profile(id, name, last) ==
    StructValue("Profile", <<U("u32", id), StrValue(name), StrValue(last)>>, << >>)
Employee(id, profile, dept) ==
    StructValue("Employee", <<U("u32", id), profile, StrValue(dept)>>, << >>)
MeetingsLog(id, owner, meetings) ==
    StructValue("MeetingsLog", <<U("u32", id), StrValue(owner), HashMapValue(meetings)>>,
                << >>)

Employees == {Employee(1, Profile(10000, <<77>>, <<74, 97>>), <<109>>),
              Employee(2, Profile(10001, <<74, 111>>, << >>), << >>)}
Logs == {MeetingsLog(1, <<74>>, q) :
            q \in {x \in SeqsUpTo(StrEntries, MaxElems) : DistinctKeys(x)}}

StructInputs ==
    {In(TProfile, Profile(10000, <<77, 105>>, <<74, 97>>)),
     In(TUser, StructValue("User", <<U("u32", 32), StrValue(<<97, 98, 99>>)>>, << >>))}
    \cup {In(TEmployee, x) : x \in Employees}
    \cup {In(TVec(TEmployee), VecValue(q)) : q \in SeqsUpTo(Employees, MaxElems)}
    \cup {In(TMeetingsLog, x) : x \in Logs}
    \cup {In(TVec(TMeetingsLog), SliceValue(<<x>>)) : x \in Logs}
    \cup {In(T, StructValue(T.name, <<U("u32", 32), U("u32", 436)>>, <<U("u32", z)>>)) :
             T \in {TVertex3d, TVertex3dOwn}, z \in {0, 5}}
    \cup {In(TVec(T), VecValue(<<StructValue(T.name, <<U("u32", 1), U("u32", 2)>>,
                                             <<U("u32", 5)>>)>>)) :
             T \in {TVertex3d, TVertex3dOwn}}

\* Values at and just over the largest size a one-byte Size can hold (255).
BigStr(n) == StrValue(Rep(97, n))

BigInputs ==
    {In(TStr, BigStr(n)) : n \in {255, 256}}
    \cup {In(TVec(TPrim("u8")), VecValue(Rep(U("u8", 7), n))) : n \in {127, 128}}
    \cup {In(TVec(TStr), VecValue(<<BigStr(n)>>)) : n \in {253, 254, 256}}
    \cup {In(TVec(TStr), SliceValue(<<BigStr(n), StrValue(<<73, 115>>)>>)) : n \in {250, 251}}
    \cup {In(TVec(TVec(TPrim("u8"))), VecValue(<<VecValue(Rep(U("u8", 7), n))>>)) :
             n \in {126, 127}}
    \cup {In(THashSet(TStr), HashSetValue(<<BigStr(n)>>)) : n \in {253, 254}}
    \cup {In(TTuple(<<TStr>>), TupleValue(<<BigStr(n)>>)) : n \in {254, 255, 256}}
    \cup {In(TTuple(<<TStr, TPrim("u8")>>), TupleValue(<<BigStr(n), U("u8", 7)>>)) :
             n \in {252, 253}}
    \cup {In(TUser, StructValue("User", <<U("u32", 32), BigStr(n)>>, << >>)) :
             n \in {249, 250, 256}}

\* Values at and just over the largest size a two-byte Size can hold
\* (65535); they are handed to the calls with Size = u16.
HugeInputs ==
    {In(TStr, BigStr(n)) : n \in {65535, 65536}}
    \cup {In(TVec(TStr), VecValue(<<BigStr(n)>>)) : n \in {65531, 65532}}

UnitInputs == {In(TUnit, UnitValue)}

\* A Vec<(String, String)> in which a key occurs twice, its buffer to be
\* decoded as a HashMap<String, String>: the two share the layout.
DupInputs ==
    {In(THashMap(TStr, TStr), VecValue(q)) :
        q \in {x \in SeqsUpTo(StrEntries, MaxElems) : ~DistinctKeys(x)}}

\* A tuple of arity 1 or the unit value inside a collection or a struct:
\* a HashSet<(u8,)>, a struct Wrapped { t: (u8,) }, a Vec<()>.
TWrapped == TStruct("Wrapped", <<TTuple(<<TPrim("u8")>>)>>, << >>, << >>)

NestedInputs ==
    {In(THashSet(TTuple(<<TPrim("u8")>>)), HashSetValue(<<TupleValue(<<U("u8", 7)>>)>>)),
     In(TWrapped, StructValue("Wrapped", <<TupleValue(<<U("u8", 7)>>)>>, << >>)),
     In(TVec(TUnit), VecValue(<<UnitValue, UnitValue>>))}

Inputs == PrimInputs \cup StrInputs \cup VecInputs \cup SetInputs \cup MapInputs
             \cup TupleInputs \cup StructInputs \cup BigInputs \cup UnitInputs
             \cup DupInputs \cup NestedInputs

-----------------------------------------------------------------------------
(* The calls                                                               *)

Hosts == {"le", "be"}
Builds == {"debug", "release"}

\* What a build makes of the transmute of a u32 that is no char (undefined
\* behaviour): the char returned holds those bits, or, where the optimiser
\* has used the range of char, the process is killed.
InvalidCharOutcomes(b) == IF b = "release" THEN {"bits", "killed"} ELSE {"bits"}

Init == /\ host \in Hosts
        /\ build \in Builds
        /\ invalid_char \in InvalidCharOutcomes(build)
        /\ \E w \in Widths :
              \E x \in IF w = 2 THEN Inputs \cup HugeInputs ELSE Inputs :
                 size = w /\ ty = x.ty /\ val = x.v
        /\ buf = << >>
        /\ op = "new"
        /\ szres = None
        /\ encres = NoResult
        /\ decres = NoResult
        /\ tampered = "no"
        /\ limit = << >>
        /\ calls = << >>
        /\ heap = << >>

\* val.get_size::<Size>()
GetSize == /\ op = "new"
           /\ szres' = get_size(size, val)
           /\ op' = "sized"
           /\ UNCHANGED <<host, build, invalid_char, size, ty, val, buf, encres, decres, tampered, limit,
                         calls, heap>>

\* val.encode::<Size>(); the caller keeps the buffer of an Ok.
Encode == /\ op = "sized"
          /\ encres' = encode(size, val)
          /\ buf' = IF encres'.tag = "Ok" THEN encres'.v ELSE << >>
          /\ op' = "encoded"
          /\ UNCHANGED <<host, build, invalid_char, size, ty, val, szres, decres, tampered, limit,
                         calls, heap>>

\* <ty>::decode::<Size>(&buf)
Decode == /\ op \in {"encoded", "loaded"}
          /\ op = "encoded" => encres.tag = "Ok"
          /\ decres' = decode(size, ty, buf)
          /\ op' = "decoded"
          /\ UNCHANGED <<host, build, invalid_char, size, ty, val, buf, szres, encres, tampered, limit,
                         calls, heap>>

\* The limits handed to decode_max over a buffer b: one less than its
\* length, its length, and the largest Size.
Limits(w, b) ==
    {NatToNum(n, w) : n \in {Len(b) - 1, Len(b)} \cap Nat} \cup {max_value(w)}

\* <ty>::decode_max::<Size>(&buf, limit)
DecodeMax == /\ op \in {"encoded", "loaded"}
             /\ op = "encoded" => encres.tag = "Ok"
             /\ tampered \in {"no", "crafted"}
             /\ limit' \in Limits(size, buf)
             /\ decres' = decode_max(size, ty, buf, limit')
             /\ op' = "decoded_max"
             /\ UNCHANGED <<host, build, invalid_char, size, ty, val, buf, szres, encres, tampered,
                         calls, heap>>

\* The buffers the caller of decode may hand in instead of an encoder's
\* output: a prefix of it, it with a byte appended, it with one byte
\* changed (buffers of up to MaxTamperLen bytes), or bytes written by hand.
MaxTamperLen == 17

PokeBytes == {0, 1, 255}

CanTamper == /\ op = "encoded"
             /\ encres.tag = "Ok"
             /\ tampered = "no"
             /\ Len(buf) <= MaxTamperLen

Truncate == /\ CanTamper
            /\ \E n \in 0..(Len(buf) - 1) : buf' = SubSeq(buf, 1, n)
            /\ tampered' = "truncated"
            /\ UNCHANGED <<host, build, invalid_char, size, ty, val, op, szres, encres, decres, limit,
                         calls, heap>>

Extend == /\ CanTamper
          /\ \E b \in PokeBytes : buf' = Append(buf, b)
          /\ tampered' = "extended"
          /\ UNCHANGED <<host, build, invalid_char, size, ty, val, op, szres, encres, decres, limit,
                         calls, heap>>

Poke == /\ CanTamper
        /\ \E i \in 1..Len(buf) : \E b \in PokeBytes :
              /\ buf[i] # b
              /\ buf' = [buf EXCEPT ![i] = b]
        /\ tampered' = "poked"
        /\ UNCHANGED <<host, build, invalid_char, size, ty, val, op, szres, encres, decres, limit,
                         calls, heap>>

\* Size fields written by hand, for a Size of w bytes: the largest count;
\* two elements whose declared sizes are 2^(8w-1) each, and no body; one
\* element of the largest declared size, and a one-byte body; one element
\* of 255 bytes, declared as such, and those bytes.
HalfMax(w) == [i \in 1..w |-> IF i = 1 THEN 128 ELSE 0]
Field(n) == IntEncode(n).v
Crafted(w) ==
    {Field(max_value(w)),
     Field(NatToNum(2, w)) \o Field(HalfMax(w)) \o Field(HalfMax(w)),
     Field(NatToNum(1, w)) \o Field(max_value(w)) \o <<97>>,
     Field(NatToNum(1, w)) \o Field(NatToNum(255, w)) \o Rep(97, 255)}

LoadRaw == /\ op = "new"
           /\ buf' \in Crafted(size)
           /\ op' = "loaded"
           /\ tampered' = "crafted"
           /\ UNCHANGED <<host, build, invalid_char, size, ty, val, szres, encres, decres, limit,
                         calls, heap>>

Next == GetSize \/ Encode \/ Truncate \/ Extend \/ Poke \/ LoadRaw \/ Decode \/ DecodeMax

Spec == Init /\ [][Next]_vars

-----------------------------------------------------------------------------
(* Round trips                                                             *)
(*                                                                         *)
(* The properties below are stated over the calls of a run: val is the     *)
(* value handed to get_size and encode, buf the buffer handed to decode,   *)
(* szres, encres and decres what the three calls returned.  The element    *)
(* and field types are those of the format (primitives, strings,           *)
(* collections, tuples, structs).                                          *)

\* decode was handed exactly the buffer encode returned.
RoundTripDone == op = "decoded" /\ tampered = "no"

ScalarSeq(v) == /\ v.k \in {"vec", "slice"}
                /\ \A i \in 1..Len(v.e) : v.e[i].k \in {"prim", "str"}

\* C1: a Vec or slice of integers, chars or strings that encodes to Ok(b)
\* decodes from b, for every Size, to Ok of a Vec with the same elements
\* in the same order.
C1_RoundTripSequences ==
    (RoundTripDone /\ ScalarSeq(val))
        => /\ decres.tag = "Ok"
           /\ decres.v.k = "vec"
           /\ decres.v.e = val.e

\* A slice of two different strings has made the round trip with Size = u64.
C1_Witness ==
    /\ RoundTripDone
    /\ size = 8
    /\ val.k = "slice"
    /\ Len(val.e) = 2
    /\ val.e[1].k = "str"
    /\ val.e[1] # val.e[2]
    /\ decres.tag = "Ok"

Elems(v) == {v.e[i] : i \in 1..Len(v.e)}

\* The value is, or holds at any depth, a unit value.
RECURSIVE HoldsUnit(_)
HoldsUnit(v) ==
    \/ v.k = "unit"
    \/ /\ v.k \in {"vec", "slice", "hashset", "hashmap", "tuple"}
       /\ \E i \in 1..Len(v.e) : HoldsUnit(v.e[i])
    \/ /\ v.k = "struct"
       /\ \E i \in 1..Len(v.f) : HoldsUnit(v.f[i])

\* The value is, or holds at any depth, a tuple of arity 1.
RECURSIVE HoldsOneTuple(_)
HoldsOneTuple(v) ==
    \/ v.k = "tuple" /\ Len(v.e) = 1
    \/ /\ v.k \in {"vec", "slice", "hashset", "hashmap", "tuple"}
       /\ \E i \in 1..Len(v.e) : HoldsOneTuple(v.e[i])
    \/ /\ v.k = "struct"
       /\ \E i \in 1..Len(v.f) : HoldsOneTuple(v.f[i])

\* C2: a HashSet or HashMap that encodes to Ok(b), in whatever order
\* iter() visited it, decodes from b to Ok of an equal set or map: the
\* same elements, or the same keys each with the same value.
C2_RoundTripSetsAndMaps ==
    (RoundTripDone /\ val.k \in {"hashset", "hashmap"})
        => /\ decres.tag = "Ok"
           /\ decres.v.k = val.k
           /\ Len(decres.v.e) = Len(val.e)
           /\ Elems(decres.v) = Elems(val)

\* The same for the sets and maps that hold no tuple of arity 1 and no
\* unit value.
C2_WithoutOneTuplesAndUnits ==
    (/\ RoundTripDone
     /\ val.k \in {"hashset", "hashmap"}
     /\ ~HoldsOneTuple(val)
     /\ ~HoldsUnit(val))
        => /\ decres.tag = "Ok"
           /\ decres.v.k = val.k
           /\ Len(decres.v.e) = Len(val.e)
           /\ Elems(decres.v) = Elems(val)

\* A set of two tuples has made the round trip.
C2_Witness ==
    /\ RoundTripDone
    /\ val.k = "hashset"
    /\ Len(val.e) = 2
    /\ val.e[1].k = "tuple"
    /\ decres.tag = "Ok"
    /\ Len(decres.v.e) = 2

RECURSIVE HasStruct(_)
HasStruct(T) ==
    CASE T.k \in {"prim", "str", "unit"} -> FALSE
      [] T.k \in {"vec", "hashset", "hashmap"} -> HasStruct(T.of)
      [] T.k = "tuple" -> \E i \in 1..Len(T.of) : HasStruct(T.of[i])
      [] T.k = "struct" -> TRUE

\* The value a round trip through type T is to give back for v: v itself,
\* except that the unlisted fields of every struct in it are those of the
\* struct's own Default::default() (rule "own") or the Default of each
\* field's type (rule "fieldtype").
RECURSIVE Image(_, _, _)
Image(rule, T, v) ==
    CASE T.k \in {"prim", "str", "unit"} -> v
      [] T.k \in {"vec", "hashset", "hashmap"} ->
           [k |-> T.k, e |-> [i \in 1..Len(v.e) |-> Image(rule, T.of, v.e[i])]]
      [] T.k = "tuple" ->
           TupleValue([i \in 1..Len(v.e) |-> Image(rule, T.of[i], v.e[i])])
      [] T.k = "struct" ->
           StructValue(T.name,
                       [i \in 1..Len(v.f) |-> Image(rule, T.of[i], v.f[i])],
                       IF rule = "own" THEN T.dflt
                       ELSE [i \in 1..Len(T.restTy) |-> DefaultOf(T.restTy[i])])

\* Equality of values: sequences and tuples position by position, sets
\* and maps whatever their order, structs field by field.
RECURSIVE SameValue(_, _)
SameValue(a, b) ==
    /\ a.k = b.k
    /\ CASE a.k \in {"prim", "str", "unit"} -> a = b
          [] a.k \in {"vec", "slice", "tuple"} ->
               /\ Len(a.e) = Len(b.e)
               /\ \A i \in 1..Len(a.e) : SameValue(a.e[i], b.e[i])
          [] a.k \in {"hashset", "hashmap"} ->
               /\ Len(a.e) = Len(b.e)
               /\ \A i \in 1..Len(a.e) : \E j \in 1..Len(b.e) : SameValue(a.e[i], b.e[j])
               /\ \A j \in 1..Len(b.e) : \E i \in 1..Len(a.e) : SameValue(a.e[i], b.e[j])
          [] a.k = "struct" ->
               /\ a.name = b.name
               /\ Len(a.f) = Len(b.f)
               /\ \A i \in 1..Len(a.f) : SameValue(a.f[i], b.f[i])
               /\ Len(a.rest) = Len(b.rest)
               /\ \A i \in 1..Len(a.rest) : SameValue(a.rest[i], b.rest[i])

\* C3: a struct of bytevec_impls! that encodes to Ok(b), alone, inside
\* another struct or as an element of a Vec, decodes from b to Ok of a
\* struct whose listed fields equal the original's and whose unlisted
\* fields are those of the struct's own Default::default().
C3_RoundTripRecords ==
    (RoundTripDone /\ HasStruct(ty))
        => /\ decres.tag = "Ok"
           /\ SameValue(decres.v, Image("own", ty, val))

\* C3 as stated: the unlisted fields are the Default of each field's type.
C3_UnlistedFieldsAreFieldTypeDefaults ==
    (RoundTripDone /\ HasStruct(ty))
        => /\ decres.tag = "Ok"
           /\ SameValue(decres.v, Image("fieldtype", ty, val))

\* The round trip with the struct's own Default::default(), for the
\* structs that hold no tuple of arity 1 and no unit value.
C3_WithoutOneTuplesAndUnits ==
    (RoundTripDone /\ HasStruct(ty) /\ ~HoldsOneTuple(val) /\ ~HoldsUnit(val))
        => /\ decres.tag = "Ok"
           /\ SameValue(decres.v, Image("own", ty, val))

\* A Vec of a struct with an unlisted, non-default field has made the
\* round trip, and the unlisted field came back as Default::default() has it.
C3_Witness ==
    /\ RoundTripDone
    /\ ty.k = "vec"
    /\ ty.of.k = "struct"
    /\ Len(ty.of.restTy) = 1
    /\ Len(val.e) = 1
    /\ val.e[1].rest # ty.of.dflt
    /\ decres.tag = "Ok"
    /\ decres.v.e[1].rest = ty.of.dflt

\* C4: whenever get_size returned Some(n), encode returns Ok(b) with b
\* exactly n bytes long; the unit value included.
C4_GetSizeIsEncodedLength ==
    (encres.tag # "NoResult" /\ szres.some)
        => /\ encres.tag = "Ok"
           /\ BLen(encres.v) = as_usize(szres.n)

\* The same for every value that is no unit value and holds none.
C4_ExceptUnit ==
    (encres.tag # "NoResult" /\ szres.some /\ ~HoldsUnit(val))
        => /\ encres.tag = "Ok"
           /\ BLen(encres.v) = as_usize(szres.n)

-----------------------------------------------------------------------------
(* Sizes and wire layout                                                   *)

\* encode has just returned into encres.
EncodeDone == op = "encoded" /\ tampered = "no"

IsOverflowError(r) == r.tag = "Err" /\ r.v.kind = "OverflowError"

Composite(v) == v.k \in CollectionKinds \cup {"tuple", "struct"}

\* The elements of a collection or tuple, the listed fields of a struct.
Parts(v) == IF v.k = "struct" THEN v.f ELSE v.e

\* The bytes before the size fields: the count of a collection.
HeaderLen(w, v) == IF v.k \in CollectionKinds THEN w ELSE 0

RECURSIVE SumRange(_, _, _)
\* f[lo] + .. + f[hi] for a sequence f of natural numbers.
SumRange(f, lo, hi) ==
    IF lo > hi THEN 0
    ELSE IF lo = hi THEN f[lo]
    ELSE SumRange(f, lo, (lo + hi) \div 2) + SumRange(f, (lo + hi) \div 2 + 1, hi)

\* The number a Size field of w bytes at offset `at` of b holds.
FieldAt(w, b, at) == as_usize(IntDecode(w, SubSeq(b, at + 1, at + w)).v)

\* b is hdr bytes, then one Size field per element of es holding the
\* length of that element's own encoding, then those encodings in order.
Layout(w, hdr, es, b) ==
    LET N == Len(es)
        lens == [i \in 1..N |-> Len(encode(w, es[i]).v)]
        start(i) == hdr + N * w + SumRange(lens, 1, i - 1)
    IN  /\ \A i \in 1..N : encode(w, es[i]).tag = "Ok"
        /\ Len(b) = hdr + N * w + SumRange(lens, 1, N)
        /\ \A i \in 1..N : FieldAt(w, b, hdr + (i - 1) * w) = NatToNum(lens[i], UsizeBytes)
        /\ \A i \in 1..N : SubSeq(b, start(i) + 1, start(i) + lens[i]) = encode(w, es[i]).v

\* C5: for a string, collection, tuple or struct, encode returns
\* Err(OverflowError) exactly when get_size returned None; when get_size
\* returned Some, encode returns Ok, the encode of every element returns
\* Ok, and the buffer is whole: the size fields the encoder writes and
\* every element's encoding in full, which is as many bytes as get_size
\* announced wherever no unit value is held.
C5_EncodeFailsIffNoSize ==
    (EncodeDone /\ (val.k = "str" \/ Composite(val)))
        => /\ IsOverflowError(encres) <=> ~szres.some
           /\ szres.some => encres.tag = "Ok"
           /\ (szres.some /\ val.k = "str") => Len(encres.v) = Len(val.s)
           /\ (szres.some /\ Composite(val)) =>
                 LET es == Parts(val)
                     lens == [i \in 1..Len(es) |-> Len(encode(size, es[i]).v)]
                     fields == IF val.k = "tuple" /\ Len(es) = 1 THEN 0
                               ELSE HeaderLen(size, val) + Len(es) * size
                 IN  /\ \A i \in 1..Len(es) : encode(size, es[i]).tag = "Ok"
                     /\ Len(encres.v) = fields + SumRange(lens, 1, Len(es))
                     /\ ~HoldsUnit(val) => BLen(encres.v) = as_usize(szres.n)

\* A tuple whose size does not fit a one-byte Size was refused by both calls.
C5_Witness ==
    /\ EncodeDone
    /\ val.k = "tuple"
    /\ ~szres.some
    /\ IsOverflowError(encres)

\* The total is at most the largest value of a Size of w bytes.
FitsSize(total, w) == NumLeq(NatToNum(total, UsizeBytes), as_usize(max_value(w)))

ElemSizes(w, v) == [i \in 1..Len(v.e) |-> get_size(w, v.e[i])]

\* w + N*w + s_1 + .. + s_N, as a natural number.
IdealTotal(w, v) ==
    LET sizes == ElemSizes(w, v)
        nats == [i \in 1..Len(v.e) |-> SmallNat(as_usize(sizes[i].n))]
    IN  w + Len(v.e) * w + SumRange(nats, 1, Len(v.e))

\* get_size has just returned into szres, or encode after it into encres.
SizeAsked == op = "sized" \/ EncodeDone

AllSizesPresent(w, v) == \A i \in 1..Len(v.e) : ElemSizes(w, v)[i].some

\* C6: get_size of a collection is None when the size of an element is
\* None; else it is Some(w + N*w + s_1 + .. + s_N) when that total is at
\* most 2^(8w) - 1 and None when it is more, and in the latter case encode
\* returns Err(OverflowError).
C6_CollectionSizeThreshold ==
    (SizeAsked /\ val.k \in CollectionKinds)
        => IF ~AllSizesPresent(size, val) THEN ~szres.some
           ELSE IF FitsSize(IdealTotal(size, val), size)
           THEN /\ szres.some
                /\ as_usize(szres.n) = NatToNum(IdealTotal(size, val), UsizeBytes)
           ELSE /\ ~szres.some
                /\ EncodeDone => IsOverflowError(encres)

\* A collection one byte over the largest one-byte Size was refused.
C6_Witness ==
    /\ EncodeDone
    /\ size = 1
    /\ val.k \in CollectionKinds
    /\ AllSizesPresent(size, val)
    /\ IdealTotal(size, val) = 256
    /\ ~szres.some
    /\ IsOverflowError(encres)

\* C7: the buffer of a collection of N elements is the count N in one
\* Size field, then N Size fields of which the i-th holds the length of
\* the encoding of the i-th element, then the N encodings in that order.
C7_CollectionLayout ==
    (EncodeDone /\ encres.tag = "Ok" /\ val.k \in CollectionKinds)
        => /\ Len(encres.v) >= size
           /\ FieldAt(size, encres.v, 0) = NatToNum(Len(val.e), UsizeBytes)
           /\ Layout(size, size, val.e, encres.v)

\* The same for the collections whose elements hold no unit value.
C7_WithoutUnits ==
    (EncodeDone /\ encres.tag = "Ok" /\ val.k \in CollectionKinds /\ ~HoldsUnit(val))
        => /\ Len(encres.v) >= size
           /\ FieldAt(size, encres.v, 0) = NatToNum(Len(val.e), UsizeBytes)
           /\ Layout(size, size, val.e, encres.v)

\* A Vec of two strings of different lengths was encoded.
C7_Witness ==
    /\ EncodeDone
    /\ encres.tag = "Ok"
    /\ val.k = "vec"
    /\ Len(val.e) = 2
    /\ val.e[1].k = "str"
    /\ Len(val.e[1].s) # Len(val.e[2].s)

UserExample == StructValue("User", <<U("u32", 32), StrValue(<<97, 98, 99>>)>>, << >>)

\* C8: the buffer of a tuple of arity N or of a struct with N listed
\* fields is N Size fields, the i-th holding the length of the encoding
\* of the i-th position, then the N encodings in that order, and nothing
\* else; User {id: 32, name: "abc"} gives the field 4, the field 3, the
\* four bytes of id and the three bytes of name.
C8_TupleAndRecordLayout ==
    (EncodeDone /\ encres.tag = "Ok" /\ val.k \in {"tuple", "struct"})
        => /\ Layout(size, 0, Parts(val), encres.v)
           /\ (val.k = "struct" /\ val = UserExample) =>
                 encres.v = IntEncode(NatToNum(4, size)).v \o IntEncode(NatToNum(3, size)).v
                               \o PrimEncode("u32", NatToNum(32, 4)).v \o <<97, 98, 99>>

\* The same for the tuples of two positions or more and the structs.
C8_ExceptArityOne ==
    (/\ EncodeDone
     /\ encres.tag = "Ok"
     /\ val.k \in {"tuple", "struct"}
     /\ ~(val.k = "tuple" /\ Len(val.e) = 1))
        => Layout(size, 0, Parts(val), encres.v)

\* The struct of the example was encoded with Size = u16.
C8_Witness ==
    /\ EncodeDone
    /\ encres.tag = "Ok"
    /\ size = 2
    /\ val.k = "struct"
    /\ val = UserExample
    /\ Len(encres.v) = 11

-----------------------------------------------------------------------------
(* Size checks of decode                                                   *)

\* r is the size-mismatch error with this comparison, size and actual length.
IsBadSize(r, cmp, n, actual) ==
    /\ r.tag = "Err"
    /\ r.v.kind = "BadSizeDecodeError"
    /\ r.v.expected.cmp = cmp
    /\ r.v.expected.n = n
    /\ r.v.actual = actual

\* The byte width of each primitive type (usize on a 64-bit platform).
ByteWidth(t) == CASE t \in {"u8", "i8"} -> 1
                  [] t \in {"u16", "i16"} -> 2
                  [] t \in {"u32", "i32", "f32", "char"} -> 4
                  [] t \in {"u64", "i64", "f64", "usize"} -> 8

\* C9: decode of a primitive of byte width k returns Ok exactly when the
\* slice is k bytes long, and for every other length, 0 included, the
\* error BadSizeDecodeError {EqualTo(k), actual: the length}, whatever
\* the Size.
C9_PrimitiveExactSize ==
    (op = "decoded" /\ ty.k = "prim")
        => IF Len(buf) = ByteWidth(ty.t)
           THEN decres.tag = "Ok"
           ELSE IsBadSize(decres, "EqualTo", NatToNum(ByteWidth(ty.t), UsizeBytes),
                          NatToNum(Len(buf), UsizeBytes))

\* The same in the builds where a char that holds any 32 bits is
\* returned as it is.
C9_WhereInvalidCharIsReturned ==
    (op = "decoded" /\ ty.k = "prim" /\ invalid_char = "bits")
        => IF Len(buf) = ByteWidth(ty.t)
           THEN decres.tag = "Ok"
           ELSE IsBadSize(decres, "EqualTo", NatToNum(ByteWidth(ty.t), UsizeBytes),
                          NatToNum(Len(buf), UsizeBytes))

\* A char was decoded from the empty slice, and the error returned.
C9_Witness ==
    /\ op = "decoded"
    /\ ty.k = "prim"
    /\ ty.t = "char"
    /\ Len(buf) = 0
    /\ decres.tag = "Err"

\* Numbers beyond usize: numerals two digits longer, whose sums and
\* products of the quantities below are exact.
Wide(a) == Cast(a, UsizeBytes + 2)
WideNat(n) == NatToNum(n, UsizeBytes + 2)

RECURSIVE WideFold(_, _, _, _)
\* The exact sum of r.v and the usize values f[lo..hi].
WideFold(f, lo, hi, r) ==
    IF lo > hi \/ r.tag # "Ok" THEN r
    ELSE IF lo = hi THEN Ok(WrapAdd(r.v, Wide(as_usize(f[lo]))))
    ELSE WideFold(f, (lo + hi) \div 2 + 1, hi, WideFold(f, lo, (lo + hi) \div 2, r))

WideSum(f) == WideFold(f, 1, Len(f), Ok(WideNat(0))).v

\* r is the size-mismatch error whose expected size is the exact number n
\* and whose actual length is that of b.
IsBadSizeExactly(r, cmp, n, b) ==
    /\ r.tag = "Err"
    /\ r.v.kind = "BadSizeDecodeError"
    /\ r.v.expected.cmp = cmp
    /\ Wide(r.v.expected.n) = n
    /\ r.v.actual = BLen(b)

\* The three size checks of a collection's decode over buffer b, with
\* N, N*w and S the exact numbers.
SizeChecks(w, b, r) ==
    IF Len(b) < w THEN IsBadSizeExactly(r, "MoreThan", WideNat(w), b)
    ELSE LET N == Wide(FieldAt(w, b, 0))
             Nw == WrapMul(N, w)
         IN  IF NumLess(WideNat(Len(b) - w), Nw)
             THEN IsBadSizeExactly(r, "MoreThan", WrapAdd(WideNat(w), Nw), b)
             ELSE LET n == SmallNat(N)
                      S == WideSum(ReadSizes(w, b, w, n))
                      total == WrapAdd(WrapAdd(WideNat(w), Nw), S)
                  IN  S # WideNat(Len(b) - w - n * w)
                        => /\ IsBadSizeExactly(r, "EqualTo", total, b)
                           /\ total # WideNat(Len(b))

\* C10: decode of a collection from b returns MoreThan(w) when b is
\* shorter than w; else, N being the count, MoreThan(w + N*w) when fewer
\* than N*w bytes follow the count; else, S being the sum of the N
\* declared lengths, EqualTo(w + N*w + S) when S is not the number of
\* bytes that follow the size fields; each with actual = the length of
\* b, and EqualTo never with the actual length.
C10_CollectionDecodeSizeChecks ==
    (op = "decoded" /\ ty.k \in {"vec", "hashset", "hashmap"})
        => SizeChecks(size, buf, decres)

\* The same for the Sizes narrower than usize, whose count times w and
\* whose sums of declared lengths stay within usize.
C10_SizesNarrowerThanUsize ==
    (op = "decoded" /\ ty.k \in {"vec", "hashset", "hashmap"} /\ size < UsizeBytes)
        => SizeChecks(size, buf, decres)

-----------------------------------------------------------------------------
(* decode_max, byte order, strings                                         *)

SameResult(a, b) == a.tag = b.tag /\ a.v = b.v

\* C11: decode_max over a buffer longer than the limit L returns the
\* size-mismatch error LessOrEqualThan(L) with actual = the length,
\* whatever decode would return; over a buffer of at most L bytes, L
\* itself included, it returns what decode returns.
C11_DecodeMaxGuard ==
    op = "decoded_max"
        => IF Len(buf) > SmallNat(as_usize(limit))
           THEN IsBadSize(decres, "LessOrEqualThan", as_usize(limit), BLen(buf))
           ELSE SameResult(decres, decode(size, ty, buf))

\* A buffer that decodes was turned away for being one byte over the limit.
C11_Witness ==
    /\ op = "decoded_max"
    /\ tampered = "no"
    /\ Len(buf) = SmallNat(as_usize(limit)) + 1
    /\ decode(size, ty, buf).tag = "Ok"
    /\ decres.tag = "Err"

\* The bytes of numeral n, most significant first and least significant first.
BigEndian(n) == n
LittleEndian(n) == Reverse(n)

\* C12: on either host, the buffer of a fixed-width integer is its bytes
\* most significant first, the count field of a collection likewise, and
\* decode gives the value back.
C12_BigEndianOnEveryHost ==
    /\ (EncodeDone /\ encres.tag = "Ok" /\ val.k = "prim")
          => encres.v = BigEndian(val.n)
    /\ (EncodeDone /\ encres.tag = "Ok" /\ val.k \in CollectionKinds)
          => SubSeq(encres.v, 1, size) = BigEndian(NatToNum(Len(val.e), size))
    /\ (RoundTripDone /\ val.k = "prim")
          => decres.tag = "Ok" /\ decres.v = val

\* What the code does instead: on either host, least significant first.
C12_LittleEndianOnEveryHost ==
    /\ (EncodeDone /\ encres.tag = "Ok" /\ val.k = "prim")
          => encres.v = LittleEndian(val.n)
    /\ (EncodeDone /\ encres.tag = "Ok" /\ val.k \in CollectionKinds)
          => SubSeq(encres.v, 1, size) = LittleEndian(NatToNum(Len(val.e), size))
    /\ (RoundTripDone /\ val.k = "prim")
          => decres.tag = "Ok" /\ decres.v = val

RECURSIVE IsUtf8From(_, _)
\* s[i..] is a run of complete well-formed UTF-8 sequences.
IsUtf8From(s, i) ==
    \/ i > Len(s)
    \/ /\ WellFormedAt(s, i)
       /\ IsUtf8From(s, i + Utf8Width(s[i]))

IsUtf8Error(r) == r.tag = "Err" /\ r.v.kind = "StringDecodeUtf8Error"

\* C13: encode of a string whose length fits the Size is exactly its
\* bytes, as many as get_size says, and Err(OverflowError) for a longer
\* one; decode of a slice as a String is the string of exactly those
\* bytes when they are valid UTF-8, the empty string for the empty slice,
\* and the UTF-8 error when they are not.
C13_BareStringCodec ==
    /\ (EncodeDone /\ val.k = "str")
          => IF FitsSize(Len(val.s), size)
             THEN /\ encres.tag = "Ok"
                  /\ encres.v = val.s
                  /\ szres.some
                  /\ as_usize(szres.n) = BLen(encres.v)
             ELSE IsOverflowError(encres)
    /\ (RoundTripDone /\ ty.k = "str")
          => decres.tag = "Ok" /\ decres.v = StrValue(buf)
    /\ (op = "decoded" /\ ty.k = "str" /\ tampered # "no")
          => IF IsUtf8From(buf, 1)
             THEN decres.tag = "Ok" /\ decres.v = StrValue(buf)
             ELSE IsUtf8Error(decres)

\* A two-byte character cut in the middle was decoded as a String.
C13_Witness ==
    /\ op = "decoded"
    /\ ty.k = "str"
    /\ tampered = "truncated"
    /\ Len(buf) = 1
    /\ buf[1] >= 128
    /\ IsUtf8Error(decres)

-----------------------------------------------------------------------------
(* Decode of adversarial buffers                                           *)

CompositeType(T) == T.k \in {"vec", "hashset", "hashmap", "tuple", "struct"}

\* decode or decode_max has returned into decres.
DecodeDone == op \in {"decoded", "decoded_max"}

\* C14: decode of a collection, tuple or struct from any buffer, with
\* any Size, returns Ok or Err; it never panics on an overflow of
\* count * w, of offset + length or of the sum of the lengths, nor on an
\* index outside the buffer.
C14_DecodeIsTotal ==
    (DecodeDone /\ CompositeType(ty)) => decres.tag \in {"Ok", "Err"}

\* The same for the Sizes narrower than usize, in the builds where a
\* char that holds any 32 bits is returned as it is.
C14_TotalBelowUsize ==
    (DecodeDone /\ CompositeType(ty) /\ size < UsizeBytes /\ invalid_char = "bits")
        => decres.tag \in {"Ok", "Err"}

\* The value of the last entry of es that carries the key.
LastValueFor(es, key) ==
    LET at == {i \in 1..Len(es) : es[i].e[1] = key}
    IN  es[CHOOSE i \in at : \A j \in at : j <= i].e[2]

\* C15: a buffer of (key, value) elements that passes the size checks
\* decodes as a HashMap to Ok, equal keys or not; the map holds each key
\* of the buffer once, with the value of the last element carrying it,
\* and so fewer entries than the count when a key repeats.
C15_MapLastWriterWins ==
    (RoundTripDone /\ ty.k = "hashmap")
        => /\ decres.tag = "Ok"
           /\ DistinctKeys(decres.v.e)
           /\ {x.e[1] : x \in Elems(decres.v)} = {x.e[1] : x \in Elems(val)}
           /\ \A x \in Elems(decres.v) : x.e[2] = LastValueFor(val.e, x.e[1])
           /\ ~DistinctKeys(val.e) => Len(decres.v.e) < Len(val.e)

\* A buffer with one key twice, under different values, was decoded to
\* a map of one entry.
C15_Witness ==
    /\ RoundTripDone
    /\ ty.k = "hashmap"
    /\ Len(val.e) = 2
    /\ val.e[1].e[1] = val.e[2].e[1]
    /\ val.e[1].e[2] # val.e[2].e[2]
    /\ decres.tag = "Ok"
    /\ Len(decres.v.e) = 1

-----------------------------------------------------------------------------
(* Error kinds                                                             *)

\* r is an error decode may return: the UTF-8 error, or the size
\* mismatch with one of the comparisons cmps.
IsDecodeError(r, cmps) ==
    \/ r.v.kind = "StringDecodeUtf8Error"
    \/ /\ r.v.kind = "BadSizeDecodeError"
       /\ r.v.expected.cmp \in cmps

\* C16: an error of encode is OverflowError; an error of decode is the
\* UTF-8 error or the size mismatch with MoreThan or EqualTo, never
\* OverflowError; LessOrEqualThan comes from decode_max alone, and there
\* only for a buffer longer than the limit.
C16_ErrorKindsByOperation ==
    /\ (EncodeDone /\ encres.tag = "Err") => encres.v.kind = "OverflowError"
    /\ (op = "decoded" /\ decres.tag = "Err")
          => IsDecodeError(decres, {"MoreThan", "EqualTo"})
    /\ (op = "decoded_max" /\ decres.tag = "Err")
          => /\ IsDecodeError(decres, {"MoreThan", "EqualTo", "LessOrEqualThan"})
             /\ (decres.v.kind = "BadSizeDecodeError"
                   /\ decres.v.expected.cmp = "LessOrEqualThan")
                  => Len(buf) > SmallNat(as_usize(limit))

\* The UTF-8 error of an element came back from the decode of a collection.
C16_Witness ==
    /\ op = "decoded"
    /\ ty.k = "vec"
    /\ IsUtf8Error(decres)

-----------------------------------------------------------------------------
(* Calls in progress on several threads                                    *)
(*                                                                         *)
(* Each call runs the loops of collection_encode_impl!, tuple_impls! and   *)
(* the collection decoders one turn at a time, interleaved with the other  *)
(* calls.  calls[t] is the call of thread t: its job, its position pc,     *)
(* its loop variables and its result; heap holds the Vec<u8> each encode   *)
(* allocates.                                                              *)

\* The number of threads.
NumCalls == 2

ConcInputs ==
    {In(TVec(TStr), VecValue(<<StrValue(<<73, 115>>), StrValue(<< >>)>>)),
     In(TVec(TStr), VecValue(<<BigStr(254), StrValue(<<195, 169>>)>>)),
     In(TTuple(<<TStr, TPrim("u32")>>), TupleValue(<<StrValue(<<79, 110, 101>>), U("u32", 1)>>))}

\* The jobs: the encode of each input, and the decode of each short
\* buffer so obtained for a collection, whole and without its last byte.
EncodeJobs == {[kind |-> "encode", ty |-> x.ty, v |-> x.v, bytes |-> << >>] : x \in ConcInputs}
DecodeJobsOf(x, b) ==
    {[kind |-> "decode", ty |-> x.ty, v |-> x.v, bytes |-> SubSeq(b, 1, n)] :
        n \in {Len(b) - 1, Len(b)}}
DecodeJobs(w) ==
    UNION {DecodeJobsOf(x, encode(w, x.v).v) :
              x \in {y \in ConcInputs : /\ y.ty.k # "tuple"
                                         /\ encode(w, y.v).tag = "Ok"
                                         /\ Len(encode(w, y.v).v) <= MaxTamperLen + 2 * w}}

Idle == [pc |-> "idle"]

\* A buffer shared by every call.
SharedBuffer(t) == 1

\* let mut bytes = Vec::new(): each call's own buffer.
OwnBuffer(t) == t

Finish(t, r) == calls' = [calls EXCEPT ![t] = [pc |-> "done", job |-> calls[t].job, res |-> r]]

InitCalls == /\ host = "le"
             /\ build = "debug"
             /\ invalid_char = "bits"
             /\ size \in Widths
             /\ calls = [t \in 1..NumCalls |-> Idle]
             /\ heap = [t \in 1..NumCalls |-> << >>]
             /\ ty = TUnit
             /\ val = UnitValue
             /\ buf = << >>
             /\ op = "threads"
             /\ szres = None
             /\ encres = NoResult
             /\ decres = NoResult
             /\ tampered = "no"
             /\ limit = << >>

Shared == <<host, build, invalid_char, size, ty, val, buf, op, szres, encres, decres, tampered, limit>>

\* A thread calls encode or decode, for the first time or after an
\* earlier call of its own returned; the buffer of that earlier call went
\* to its caller with the result, or was dropped on the error path.
Call(t) == /\ calls[t].pc \in {"idle", "done"}
           /\ \E j \in EncodeJobs \cup DecodeJobs(size) :
                 calls' = [calls EXCEPT ![t] = [pc |-> "start", job |-> j]]
           /\ heap' = [heap EXCEPT ![OwnBuffer(t)] = << >>]
           /\ UNCHANGED Shared

\* encode up to the first loop: the check of get_size, the new buffer,
\* the count of a collection.
EncStart(t) ==
    /\ calls[t].pc = "start"
    /\ calls[t].job.kind = "encode"
    /\ LET v == calls[t].job.v
       IN  IF get_size(size, v).some
           THEN /\ heap' = [heap EXCEPT ![OwnBuffer(t)] =
                               IF v.k \in CollectionKinds
                               THEN IntEncode(from_usize(size, NatToNum(Len(v.e), UsizeBytes))).v
                               ELSE << >>]
                /\ calls' = [calls EXCEPT ![t] = [pc |-> "sizes", job |-> calls[t].job, i |-> 1]]
           ELSE /\ Finish(t, Err(OverflowError))
                /\ UNCHANGED heap
    /\ UNCHANGED Shared

\* One turn of the loop that writes the size fields.
EncSize(t) ==
    /\ calls[t].pc = "sizes"
    /\ LET c == calls[t]
           es == Parts(c.job.v)
       IN  IF c.i > Len(es)
           THEN /\ calls' = [calls EXCEPT ![t] = [c EXCEPT !.pc = "bodies", !.i = 1]]
                /\ UNCHANGED heap
           ELSE LET r == EncodeSizes(size, es, c.i, c.i, Ok(heap[OwnBuffer(t)]))
                IN  IF r.tag # "Ok" THEN Finish(t, r) /\ UNCHANGED heap
                    ELSE /\ heap' = [heap EXCEPT ![OwnBuffer(t)] = r.v]
                         /\ calls' = [calls EXCEPT ![t] = [c EXCEPT !.i = c.i + 1]]
    /\ UNCHANGED Shared

\* One turn of the loop that writes the bodies; Ok(bytes) after the last.
EncBody(t) ==
    /\ calls[t].pc = "bodies"
    /\ LET c == calls[t]
           es == Parts(c.job.v)
       IN  IF c.i > Len(es)
           THEN Finish(t, Ok(heap[OwnBuffer(t)])) /\ UNCHANGED heap
           ELSE LET r == EncodeBodies(size, es, c.i, c.i, Ok(heap[OwnBuffer(t)]))
                IN  IF r.tag # "Ok" THEN Finish(t, r) /\ UNCHANGED heap
                    ELSE /\ heap' = [heap EXCEPT ![OwnBuffer(t)] = r.v]
                         /\ calls' = [calls EXCEPT ![t] = [c EXCEPT !.i = c.i + 1]]
    /\ UNCHANGED Shared

\* decode of a collection up to its loop: validate_collection!.
DecStart(t) ==
    /\ calls[t].pc = "start"
    /\ calls[t].job.kind = "decode"
    /\ LET c == validate_collection(size, calls[t].job.bytes)
       IN  IF c.tag # "Ok" THEN Finish(t, c)
           ELSE calls' = [calls EXCEPT ![t] =
                            [pc |-> "elems", job |-> calls[t].job, i |-> 1,
                             sizes |-> c.v.sizes,
                             st |-> [index |-> c.v.index, acc |-> << >>]]]
    /\ UNCHANGED <<Shared, heap>>

\* One turn of the loop that decodes and inserts the elements.
DecElemStep(t) ==
    /\ calls[t].pc = "elems"
    /\ LET c == calls[t]
       IN  IF c.i > Len(c.sizes)
           THEN Finish(t, Ok([k |-> c.job.ty.k, e |-> c.st.acc]))
           ELSE LET r == DecodeElem(size, c.job.ty.k, c.job.ty.of, c.job.bytes,
                                    c.sizes[c.i], c.st)
                IN  IF r.tag # "Ok" THEN Finish(t, r)
                    ELSE calls' = [calls EXCEPT ![t] = [c EXCEPT !.i = c.i + 1, !.st = r.v]]
    /\ UNCHANGED <<Shared, heap>>

NextCalls == \E t \in 1..NumCalls :
                \/ Call(t)
                \/ EncStart(t)
                \/ EncSize(t)
                \/ EncBody(t)
                \/ DecStart(t)
                \/ DecElemStep(t)

SpecCalls == InitCalls /\ [][NextCalls]_vars

\* What the call returns when it runs alone.
Alone(w, j) == IF j.kind = "encode" THEN encode(w, j.v) ELSE decode(w, j.ty, j.bytes)

-----------------------------------------------------------------------------
(* Concurrent calls                                                        *)

\* C17: however the turns of the calls of several threads interleave,
\* each call returns what it returns when run alone, whether the other
\* calls succeed, fail or have yet to start.
C17_CallsAreIndependent ==
    op = "threads"
        => \A t \in 1..NumCalls :
              calls[t].pc = "done" => SameResult(calls[t].res, Alone(size, calls[t].job))

\* Two encodes ran at once, one failing with OverflowError, the other
\* returning its buffer.
C17_Witness ==
    /\ op = "threads"
    /\ calls[1].pc = "done"
    /\ calls[2].pc = "done"
    /\ calls[1].job.kind = "encode"
    /\ calls[2].job.kind = "encode"
    /\ IsOverflowError(calls[1].res)
    /\ calls[2].res.tag = "Ok"

-----------------------------------------------------------------------------
(* The size fields of a buffer handed to decode                            *)

\* The size fields decode reads from b for type T when all of them are
\* inside b (none otherwise): those after the count of a collection, or
\* one per position of a tuple or struct.
DeclaredSizes(w, T, b) ==
    IF T.k \in {"vec", "hashset", "hashmap"}
    THEN IF Len(b) >= w /\ NumLeq(WrapMul(Wide(FieldAt(w, b, 0)), w), WideNat(Len(b) - w))
         THEN ReadSizes(w, b, w, SmallNat(FieldAt(w, b, 0)))
         ELSE << >>
    ELSE IF T.k \in {"tuple", "struct"} /\ Len(b) >= w * Len(T.of)
    THEN ReadSizes(w, b, 0, Len(T.of))
    ELSE << >>

\* The declared lengths add up to more than usize::MAX.
SumBeyondUsize(w, T, b) ==
    LET S == WideSum(DeclaredSizes(w, T, b))
    IN  \E i \in 1..(Len(S) - UsizeBytes) : S[i] # 0

\* C18: decode of a collection, tuple or struct from a buffer whose
\* declared lengths add up to more than usize::MAX returns an error: the
\* sum is checked, and the buffer is never taken for well formed on the
\* strength of a sum that wrapped around.
C18_DeclaredSumIsChecked ==
    (op = "decoded" /\ CompositeType(ty) /\ SumBeyondUsize(size, ty, buf))
        => decres.tag = "Err"

\* r is what the decode of the bodies gives for a tuple or struct of
\* position types ts whose size fields hold lens: position i decoded from
\* offset N*w + lens[1] + .. + lens[i-1]; the error of the first position
\* that fails, else all the positions.
BodiesDecoded(w, ts, b, lens, r) ==
    LET N == Len(ts)
        start(i) == N * w + SumRange(lens, 1, i - 1)
        body(i) == decode(w, ts[i], SubSeq(b, start(i) + 1, start(i) + lens[i]))
        bad == {i \in 1..N : body(i).tag # "Ok"}
    IN  IF bad = {}
        THEN r.tag = "Ok" /\ Parts(r.v) = [i \in 1..N |-> body(i).v]
        ELSE SameResult(r, body(CHOOSE i \in bad : \A j \in bad : i <= j))

\* The checks of a tuple's or struct's decode over buffer b, with k the
\* position whose size field is cut short and S the exact sum of the
\* declared lengths.
BlockChecks(w, ts, b, r) ==
    LET N == Len(ts)
        k == Len(b) \div w
    IN  IF k < N THEN IsBadSizeExactly(r, "MoreThan", WideNat((k + 1) * w), b)
        ELSE LET f == ReadSizes(w, b, 0, N)
                 S == WideSum(f)
             IN  IF S # WideNat(Len(b) - N * w)
                 THEN IsBadSizeExactly(r, "EqualTo", WrapAdd(WideNat(N * w), S), b)
                 ELSE BodiesDecoded(w, ts, b, [i \in 1..N |-> SmallNat(as_usize(f[i]))], r)

\* C19: decode of a tuple or struct of N positions from b returns
\* MoreThan((k+1)*w) when b is too short for the size field of position
\* k (counted from 0); else, S being the sum of the N declared lengths,
\* EqualTo(N*w + S) when S is not the number of bytes after the size
\* fields; each with actual = the length of b; else the bodies are
\* decoded, position i from offset N*w + the lengths before it.
C19_TupleAndRecordSizeChecks ==
    (op = "decoded" /\ ty.k \in {"tuple", "struct"})
        => BlockChecks(size, ty.of, buf, decres)

\* The same for the Sizes narrower than usize, whose sums of declared
\* lengths stay within usize.
C19_SizesNarrowerThanUsize ==
    (op = "decoded" /\ ty.k \in {"tuple", "struct"} /\ size < UsizeBytes)
        => BlockChecks(size, ty.of, buf, decres)

-----------------------------------------------------------------------------
(* Structure before payload                                                *)

NoStructure == [ok |-> FALSE]

\* The structure of buffer b read as type T, in exact numbers: whether
\* the count, every size field and the total all agree with the length
\* of b and, when they do, where the bodies start, their lengths and
\* their types.
Structure(w, T, b) ==
    IF T.k \in {"vec", "hashset", "hashmap"}
    THEN IF Len(b) < w THEN NoStructure
         ELSE IF NumLess(WideNat(Len(b) - w), WrapMul(Wide(FieldAt(w, b, 0)), w))
         THEN NoStructure
         ELSE LET n == SmallNat(FieldAt(w, b, 0))
                  f == ReadSizes(w, b, w, n)
              IN  IF WideSum(f) # WideNat(Len(b) - w - n * w) THEN NoStructure
                  ELSE [ok |-> TRUE, at |-> w + n * w,
                        lens |-> [i \in 1..n |-> SmallNat(as_usize(f[i]))],
                        ts |-> [i \in 1..n |-> T.of]]
    ELSE LET n == Len(T.of)
         IN  IF Len(b) < n * w THEN NoStructure
             ELSE LET f == ReadSizes(w, b, 0, n)
                  IN  IF WideSum(f) # WideNat(Len(b) - n * w) THEN NoStructure
                      ELSE [ok |-> TRUE, at |-> n * w,
                            lens |-> [i \in 1..n |-> SmallNat(as_usize(f[i]))],
                            ts |-> T.of]

\* What the decoder of the body at position i of structure s returns.
BodyResult(w, b, s, i) ==
    decode(w, s.ts[i],
           SubSeq(b, s.at + SumRange(s.lens, 1, i - 1) + 1, s.at + SumRange(s.lens, 1, i)))

\* The positions, in buffer order, whose body does not decode.
FailingBodies(w, b, s) == {i \in 1..Len(s.lens) : BodyResult(w, b, s, i).tag # "Ok"}

\* r is a size-mismatch error of the buffer b itself, not of a part of it.
IsStructuralError(r, b) ==
    /\ r.tag = "Err"
    /\ r.v.kind = "BadSizeDecodeError"
    /\ r.v.expected.cmp \in {"MoreThan", "EqualTo"}
    /\ r.v.actual = BLen(b)

StructureFirst(w, T, b, r) ==
    LET s == Structure(w, T, b)
    IN  IF ~s.ok THEN IsStructuralError(r, b)
        ELSE LET bad == FailingBodies(w, b, s)
             IN  IF bad = {} THEN r.tag = "Ok"
                 ELSE SameResult(r, BodyResult(w, b, s, CHOOSE i \in bad : \A j \in bad : i <= j))

\* C20: decode of a collection, tuple or struct returns the size-mismatch
\* error of the buffer whenever the count, a size field or the total is
\* wrong, whatever the bodies hold; when all of them are right, it
\* returns the error of the first body, in buffer order, that does not
\* decode, and Ok when every body decodes.
C20_StructureBeforePayload ==
    (op = "decoded" /\ CompositeType(ty)) => StructureFirst(size, ty, buf, decres)

\* The same for the Sizes narrower than usize.
C20_SizesNarrowerThanUsize ==
    (op = "decoded" /\ CompositeType(ty) /\ size < UsizeBytes)
        => StructureFirst(size, ty, buf, decres)

-----------------------------------------------------------------------------
(* What decode accepts                                                     *)

\* C21: when decode of a Vec of fixed-width integers or of Strings from
\* buffer b returns Ok(v), encode of v with the same Size returns Ok(b);
\* so no accepted buffer is longer than the largest Size.
C21_DecodeAcceptsOnlyEncodings ==
    (/\ op = "decoded"
     /\ ty.k = "vec"
     /\ (ty.of.k = "str" \/ (ty.of.k = "prim" /\ ty.of.t \in IntTypes))
     /\ decres.tag = "Ok")
        => SameResult(encode(size, decres.v), Ok(buf))

\* The same for the buffers no longer than the largest Size.
C21_WithinLargestSize ==
    (/\ op = "decoded"
     /\ ty.k = "vec"
     /\ (ty.of.k = "str" \/ (ty.of.k = "prim" /\ ty.of.t \in IntTypes))
     /\ decres.tag = "Ok"
     /\ NumLeq(BLen(buf), as_usize(max_value(size))))
        => SameResult(encode(size, decres.v), Ok(buf))

-----------------------------------------------------------------------------
(* The values decode returns                                               *)

\* C22: char::decode returns Ok only with a Unicode scalar value, and
\* returns an error for a slice of four bytes that hold any other
\* pattern.
C22_DecodedCharIsValid ==
    (op = "decoded" /\ ty.k = "prim" /\ ty.t = "char")
        => /\ decres.tag = "Ok" => IsScalarValue(decres.v.n)
           /\ (Len(buf) = 4 /\ ~IsScalarValue(IntDecode(4, buf).v)) => decres.tag = "Err"

=============================================================================
